---- MODULE Spec2Model ----
(***************************************************************************)
(* Model of tisseo.py: the stop resolver, the departure fetch, the Passage *)
(* construction (timestamp parsing, remaining time, human string) and the  *)
(* filtering / deduplication of passages.                                  *)
(*                                                                         *)
(* Python strings are modelled as sequences of one-character strings, so   *)
(* that lower(), replace("-", " ") and "{} : {}".format() are computed.    *)
(***************************************************************************)
EXTENDS Integers, Sequences, FiniteSets, TLC

VARIABLES
    pc,              \* position of prochains_passages
    STOP_AREAS_DICT, \* the loaded stop directory
    now,             \* the clock read by _get_timedelta
    stop_area_name,  \* arguments of the current call
    stop_area_id,    \* the id prochains_passages resolved
    destination,
    line,
    http,            \* the HTTP requests issued by the current call
    response,        \* the response received by requests.get
    printed,         \* what the current call printed
    result,          \* the value returned
    error,           \* the exception that left the call
    liste,           \* input of a filter function called on its own
    out,             \* its output
    td               \* input of _timedelta_to_str called on its own

vars == <<pc, STOP_AREAS_DICT, now, stop_area_name, stop_area_id, destination,
          line, http, response, printed, result, error, liste, out, td>>

\* ------------------------------------------------------------------ bounds

\* Longest departure list of a modelled HTTP response.
MaxDep == 2
\* Longest passage list handed to a filter function called on its own.
MaxLen == 3
\* Largest absolute day count of a modelled timedelta.
MaxDays == 3

\* ----------------------------------------------------------------- strings

UpperCase == <<"A","B","C","D","E","F","G","H","I","J","K","L","M",
               "N","O","P","Q","R","S","T","U","V","W","X","Y","Z">>
LowerCase == <<"a","b","c","d","e","f","g","h","i","j","k","l","m",
               "n","o","p","q","r","s","t","u","v","w","x","y","z">>

\* str.lower() on one character.
LowerChar(c) ==
    IF \E i \in 1..Len(UpperCase) : UpperCase[i] = c
    THEN LowerCase[CHOOSE i \in 1..Len(UpperCase) : UpperCase[i] = c]
    ELSE c

\* str.lower()
Lower(s) == [i \in 1..Len(s) |-> LowerChar(s[i])]

\* str.replace("-", " ")
ReplaceHyphen(s) == [i \in 1..Len(s) |-> IF s[i] = "-" THEN " " ELSE s[i]]

\* Python's None for an argument, and a provided string.
None == [some |-> FALSE, s |-> <<>>]
Str(s) == [some |-> TRUE, s |-> s]

\* The literal string "None".
NoneStr == <<"N","o","n","e">>

\* The sequences over S of length at most n.
SeqUpTo(S, n) == UNION {[1..k -> S] : k \in 0..n}

\* ------------------------------------------------------------ exceptions

\* The outcome of a call: a returned value, or a raised exception.
Return(v) == [ok |-> TRUE, val |-> v]
Raise(type, args) == [ok |-> FALSE, exc |-> [type |-> type, args |-> args]]

\* ----------------------------------------------------- numbers and strings

DigitChars == <<"0","1","2","3","4","5","6","7","8","9">>
IsDigit(c) == \E i \in 1..Len(DigitChars) : DigitChars[i] = c
DigitVal(c) == (CHOOSE i \in 1..Len(DigitChars) : DigitChars[i] = c) - 1

\* int(s[i .. i+n-1]) for n digits
RECURSIVE Num(_, _, _)
Num(s, i, n) ==
    IF n = 0 THEN 0 ELSE Num(s, i, n - 1) * 10 + DigitVal(s[i + n - 1])

\* "{}".format(n) for an integer n
RECURSIVE NatToStr(_)
NatToStr(n) ==
    IF n < 10 THEN <<DigitChars[n + 1]>>
    ELSE NatToStr(n \div 10) \o <<DigitChars[(n % 10) + 1]>>
IntToStr(n) == IF n < 0 THEN <<"-">> \o NatToStr(-n) ELSE NatToStr(n)

\* ------------------------------------------------------ datetime.strptime

\* _DEFAULT_DATE_FORMAT = '%Y-%m-%d %H:%M:%S', directive by directive.
_DEFAULT_DATE_FORMAT ==
    <<"%Y", "-", "%m", "-", "%d", " ", "%H", ":", "%M", ":", "%S">>

\* The digits at s[i..], at most max of them (the directives' regular
\* expressions take as many digits as they can: a literal follows each).
RECURSIVE CountDigits(_, _, _)
CountDigits(s, i, max) ==
    IF max = 0 \/ i > Len(s) \/ ~IsDigit(s[i]) THEN 0
    ELSE 1 + CountDigits(s, i + 1, max - 1)

\* The blanks at s[i..] (a blank of the format matches one or more).
RECURSIVE CountSpaces(_, _)
CountSpaces(s, i) ==
    IF i > Len(s) \/ s[i] # " " THEN 0 ELSE 1 + CountSpaces(s, i + 1)

\* The values a directive's regular expression accepts (%d also takes a
\* blank and one digit).
DirectiveRange(d) ==
    CASE d = "%m" -> 1..12
      [] d = "%d" -> 1..31
      [] d = "%H" -> 0..23
      [] d = "%M" -> 0..59
      [] d = "%S" -> 0..61

NoMatch == [ok |-> FALSE, f |-> <<>>]

\* Match s[i..] against fmt[k..]; acc holds the fields read so far.
RECURSIVE MatchFormat(_, _, _, _, _)
MatchFormat(s, fmt, i, k, acc) ==
    IF k > Len(fmt)
    THEN IF i = Len(s) + 1 THEN [ok |-> TRUE, f |-> acc] ELSE NoMatch
    ELSE LET d == fmt[k] IN
      CASE d = "%Y" ->
             IF CountDigits(s, i, 4) = 4
             THEN MatchFormat(s, fmt, i + 4, k + 1, acc @@ (d :> Num(s, i, 4)))
             ELSE NoMatch
        [] d \in {"%m", "%d", "%H", "%M", "%S"} ->
             LET n == CountDigits(s, i, 2) IN
             IF n >= 1 /\ Num(s, i, n) \in DirectiveRange(d)
             THEN MatchFormat(s, fmt, i + n, k + 1, acc @@ (d :> Num(s, i, n)))
             ELSE IF d = "%d" /\ i < Len(s) /\ s[i] = " "
                       /\ CountDigits(s, i + 1, 1) = 1 /\ Num(s, i + 1, 1) >= 1
             THEN MatchFormat(s, fmt, i + 2, k + 1,
                              acc @@ (d :> Num(s, i + 1, 1)))
             ELSE NoMatch
        [] d = " " ->
             LET n == CountSpaces(s, i) IN
             IF n >= 1 THEN MatchFormat(s, fmt, i + n, k + 1, acc) ELSE NoMatch
        [] OTHER ->
             IF i <= Len(s) /\ s[i] = d
             THEN MatchFormat(s, fmt, i + 1, k + 1, acc)
             ELSE NoMatch

IsLeap(y) == (y % 4 = 0 /\ y % 100 # 0) \/ y % 400 = 0
DaysInMonth(y, m) ==
    IF m = 2 THEN (IF IsLeap(y) THEN 29 ELSE 28)
    ELSE IF m \in {4, 6, 9, 11} THEN 30 ELSE 31

\* The end of strptime, m being the match of s: the datetime constructor
\* refuses year 0, a day the month has not, and a second above 59.
DatetimeOfMatch(m, s) ==
    IF m.ok /\ m.f["%Y"] >= 1 /\ m.f["%d"] <= DaysInMonth(m.f["%Y"], m.f["%m"])
            /\ m.f["%S"] <= 59
    THEN Return([year |-> m.f["%Y"], month |-> m.f["%m"], day |-> m.f["%d"],
                 hour |-> m.f["%H"], minute |-> m.f["%M"],
                 second |-> m.f["%S"]])
    ELSE Raise("ValueError", [data_string |-> s])

\* datetime.strptime(s, fmt): a naive datetime, or ValueError (no match,
\* unconverted data, or fields the datetime constructor refuses).
Strptime(s, fmt) == DatetimeOfMatch(MatchFormat(s, fmt, 1, 1, <<>>), s)

\* ---------------------------------------------------------------- calendar

\* Days from 1970-01-01 to the civil date y-m-d.
DaysFromCivil(y, m, d) ==
    LET yy  == IF m <= 2 THEN y - 1 ELSE y
        era == yy \div 400
        yoe == yy - era * 400
        mp  == IF m > 2 THEN m - 3 ELSE m + 9
        doy == (153 * mp + 2) \div 5 + d - 1
        doe == yoe * 365 + yoe \div 4 - yoe \div 100 + doy
    IN era * 146097 + doe - 719468

\* 0 = Sunday
Weekday(days) == (days + 4) % 7
LastSunday(y, m) == 31 - Weekday(DaysFromCivil(y, m, 31))

\* pytz.timezone('Europe/Paris').localize(dt): the UTC offset, in seconds, of
\* the wall time dt (is_dst = False: a wall time that is ambiguous or does not
\* exist is read as standard time).
ParisUtcOffset(dt) ==
    LET summer ==
          \/ dt.month \in 4..9
          \/ /\ dt.month = 3
             /\ \/ dt.day > LastSunday(dt.year, 3)
                \/ dt.day = LastSunday(dt.year, 3) /\ dt.hour >= 3
          \/ /\ dt.month = 10
             /\ \/ dt.day < LastSunday(dt.year, 10)
                \/ dt.day = LastSunday(dt.year, 10) /\ dt.hour < 2
    IN IF summer THEN 7200 ELSE 3600

\* Seconds of the day of a wall time.
SecondOfDay(dt) == dt.hour * 3600 + dt.minute * 60 + dt.second

\* The seconds from the instant of wall time b at UTC offset offb to the
\* instant of wall time a at UTC offset offa.
SecondsBetween(a, offa, b, offb) ==
    (DaysFromCivil(a.year, a.month, a.day)
       - DaysFromCivil(b.year, b.month, b.day)) * 86400
      + (SecondOfDay(a) - offa) - (SecondOfDay(b) - offb)

\* ------------------------------------------------------- Passage's helpers

\* The except clause and the localization of _str_datetime_to_datetime_obj,
\* r being the outcome of strptime: any exception becomes TypeError, and the
\* naive datetime strptime returns is localized in _TISSEO_TIMEZONE.
LocalizedOrTypeError(r, str_datetime) ==
    IF ~r.ok
    THEN Raise("TypeError", [date_format |-> _DEFAULT_DATE_FORMAT,
                             str_datetime |-> str_datetime])
    ELSE Return([naive |-> r.val, utcoffset |-> ParisUtcOffset(r.val)])

\* _str_datetime_to_datetime_obj(str_datetime)
_str_datetime_to_datetime_obj(str_datetime) ==
    LocalizedOrTypeError(Strptime(str_datetime, _DEFAULT_DATE_FORMAT),
                         str_datetime)

\* _get_timedelta(date): date - now, with the naive now read as UTC; a
\* timedelta normalised to days, seconds in 0..86399 and microseconds in
\* 0..999999 (date has no microseconds).
_get_timedelta(date, clock) ==
    LET whole == SecondsBetween(date.naive, date.utcoffset, clock.naive, 0)
        s  == IF clock.microsecond = 0 THEN whole ELSE whole - 1
        us == IF clock.microsecond = 0 THEN 0 ELSE 1000000 - clock.microsecond
    IN [days |-> s \div 86400, seconds |-> s % 86400, microseconds |-> us]

\* One character per element.
S_jours == <<" ","j","o","u","r","s">>
S_heures == <<" ","h","e","u","r","e","s">>
S_et == <<" ","e","t"," ">>
S_minutes == <<" ","m","i","n","u","t","e","s">>
S_moins == <<"m","o","i","n","s"," ","d","'","u","n","e"," ",
             "m","i","n","u","t","e">>

\* _timedelta_to_str with line 100 testing the truth of days (if d["days"]:)
\* instead of days > 0.
_timedelta_to_str_DaysTruthy(time_delta) ==
    LET days    == time_delta.days
        hours   == time_delta.seconds \div 3600
        rem     == time_delta.seconds % 3600
        minutes == rem \div 60
    IN IF days # 0 THEN IntToStr(days) \o S_jours
       ELSE IF hours > 0
            THEN IntToStr(hours) \o S_heures
                   \o (IF minutes > 0
                       THEN S_et \o IntToStr(minutes) \o S_minutes
                       ELSE <<>>)
       ELSE IF minutes < 1 THEN S_moins
       ELSE IntToStr(minutes) \o S_minutes

\* _timedelta_to_str(time_delta)
_timedelta_to_str(time_delta) ==
    LET days    == time_delta.days
        hours   == time_delta.seconds \div 3600
        rem     == time_delta.seconds % 3600
        minutes == rem \div 60
    IN IF days > 0 THEN IntToStr(days) \o S_jours
       ELSE IF hours > 0
            THEN IntToStr(hours) \o S_heures
                   \o (IF minutes > 0
                       THEN S_et \o IntToStr(minutes) \o S_minutes
                       ELSE <<>>)
       ELSE IF minutes < 1 THEN S_moins
       ELSE IntToStr(minutes) \o S_minutes

\* "{} : {}".format(ligne, destination)
LigneDestination(ligne, dest) == ligne \o <<" ", ":", " ">> \o dest

\* Passage.__init__ once date_obj is known.
PassageFields(date, ligne, dest, date_obj, delta) ==
    [date_str |-> date, ligne |-> ligne, destination |-> dest,
     date_obj |-> date_obj, timedelta |-> delta,
     timedelta_str |-> _timedelta_to_str(delta),
     ligne_destination |-> LigneDestination(ligne, dest)]

\* Passage.__init__, r being the outcome of _str_datetime_to_datetime_obj.
PassageOfDate(r, date, ligne, dest, clock) ==
    IF ~r.ok THEN r
    ELSE Return(PassageFields(date, ligne, dest, r.val,
                              _get_timedelta(r.val, clock)))

\* Passage(date, ligne, destination): the object, or the exception of
\* _str_datetime_to_datetime_obj.
Passage(date, ligne, dest, clock) ==
    PassageOfDate(_str_datetime_to_datetime_obj(date), date, ligne, dest,
                  clock)

\* ---------------------------------------------------------------- filters

\* The loop of _filter_passages_for_one_line.
RECURSIVE KeepLine(_, _)
KeepLine(l, ligne) ==
    IF l = <<>> THEN <<>>
    ELSE IF Lower(Head(l).ligne) = Lower(ligne)
         THEN <<Head(l)>> \o KeepLine(Tail(l), ligne)
         ELSE KeepLine(Tail(l), ligne)

\* _filter_passages_for_one_line without the test line != "None".
_filter_passages_for_one_line_NoMarker(liste_prochains_passages, ligne) ==
    IF ligne # None
    THEN KeepLine(liste_prochains_passages, ligne.s)
    ELSE liste_prochains_passages

\* _filter_passages_for_one_line(liste_prochains_passages, line)
_filter_passages_for_one_line(liste_prochains_passages, ligne) ==
    IF ligne # None /\ ligne.s # NoneStr
    THEN KeepLine(liste_prochains_passages, ligne.s)
    ELSE liste_prochains_passages

\* The loop of _filter_passages_for_a_destination with the hyphens replaced
\* in the passage's destination only.
RECURSIVE KeepDestination_RawArgument(_, _)
KeepDestination_RawArgument(l, dest) ==
    IF l = <<>> THEN <<>>
    ELSE IF ReplaceHyphen(Lower(Head(l).destination)) = Lower(dest)
         THEN <<Head(l)>> \o KeepDestination_RawArgument(Tail(l), dest)
         ELSE KeepDestination_RawArgument(Tail(l), dest)

\* The loop of _filter_passages_for_a_destination.
RECURSIVE KeepDestination(_, _)
KeepDestination(l, dest) ==
    IF l = <<>> THEN <<>>
    ELSE IF ReplaceHyphen(Lower(Head(l).destination))
              = ReplaceHyphen(Lower(dest))
         THEN <<Head(l)>> \o KeepDestination(Tail(l), dest)
         ELSE KeepDestination(Tail(l), dest)

\* _filter_passages_for_a_destination(liste_prochains_passages, destination)
_filter_passages_for_a_destination(liste_prochains_passages, dest) ==
    IF dest # None /\ dest.s # NoneStr
    THEN KeepDestination(liste_prochains_passages, dest.s)
    ELSE liste_prochains_passages

\* x in list
InList(x, l) == \E i \in 1..Len(l) : l[i] = x

\* The deduplication loop of _filter_passages: liste_p and
\* ligne_destination_couvertes grow as the passages of l are visited.
RECURSIVE Deduplicate(_, _, _)
Deduplicate(l, liste_p, ligne_destination_couvertes) ==
    IF l = <<>> THEN liste_p
    ELSE IF ~InList(Head(l).ligne_destination, ligne_destination_couvertes)
         THEN Deduplicate(Tail(l), Append(liste_p, Head(l)),
                          Append(ligne_destination_couvertes,
                                 Head(l).ligne_destination))
         ELSE Deduplicate(Tail(l), liste_p, ligne_destination_couvertes)

\* _filter_passages(liste_prochains_passages, line, destination)
_filter_passages(liste_prochains_passages, ligne, dest) ==
    Deduplicate(
        _filter_passages_for_a_destination(
            _filter_passages_for_one_line(liste_prochains_passages, ligne),
            dest),
        <<>>, <<>>)

\* ---------------------------------------------------------- stop resolver

\* get_stop_area_by_name(stop_area_name), over the directory dict
RECURSIVE MatchingStopAreas(_, _)
MatchingStopAreas(dict, name) ==
    IF dict = <<>> THEN <<>>
    ELSE IF Lower(Head(dict).name) = Lower(name)
         THEN <<Head(dict)>> \o MatchingStopAreas(Tail(dict), name)
         ELSE MatchingStopAreas(Tail(dict), name)

get_stop_area_by_name(name) == MatchingStopAreas(STOP_AREAS_DICT, name)

\* ------------------------------------------------------------------- fetch

\* The status get_prochains_passages_for_stop_area_id accepts.
HTTP_OK == 200
\* The limit prochains_passages asks for.
LIMIT == 15

\* The url of get_prochains_passages_for_stop_area_id, field by field
\* (from_date is None in every call of this module: no datetime field).
StopsSchedulesUrl(id, limit) ==
    [path |-> "stops_schedules.json", stopAreaId |-> id,
     key |-> "_TISSEO_API_KEY", number |-> limit]

\* json.loads(text) and the two .get() of the departures
JsonDepartures(text) ==
    IF text.json THEN Return(text.departure)
    ELSE Raise("JSONDecodeError", [doc |-> text])

\* get_prochains_passages_for_stop_area_id raising on the error statuses
\* only (status_code >= 400).
get_prochains_passages_for_stop_area_id_ErrorsOnly(id, limit, ret) ==
    IF ret.status_code >= 400
    THEN Raise("ConnectionError", [status_code |-> ret.status_code,
                                   url |-> StopsSchedulesUrl(id, limit)])
    ELSE JsonDepartures(ret.text)

\* get_prochains_passages_for_stop_area_id after requests.get(url) returned
\* ret: the departures, or the exception raised.
get_prochains_passages_for_stop_area_id(id, limit, ret) ==
    IF ret.status_code # HTTP_OK
    THEN Raise("ConnectionError", [status_code |-> ret.status_code,
                                   url |-> StopsSchedulesUrl(id, limit)])
    ELSE JsonDepartures(ret.text)

\* ---------------------------------------------------- prochains_passages

\* The construction loop of prochains_passages: the passages of the raw
\* departures, in order, or the exception of the first Passage that raises.
RECURSIVE BuildPassages(_, _, _)

\* One turn of the loop: p is the outcome of Passage(...) for the first
\* departure, rest the departures left.
AppendPassage(p, rest, liste_prochains_passages, clock) ==
    IF ~p.ok THEN p
    ELSE BuildPassages(rest, Append(liste_prochains_passages, p.val), clock)

PassageOfDeparture(passage, clock) ==
    Passage(passage.dateTime, passage.line, passage.destination, clock)

BuildPassages(json_prochains_passages, liste_prochains_passages, clock) ==
    IF json_prochains_passages = <<>> THEN Return(liste_prochains_passages)
    ELSE AppendPassage(PassageOfDeparture(Head(json_prochains_passages), clock),
                       Tail(json_prochains_passages),
                       liste_prochains_passages, clock)

\* The call of _filter_passages on the passages built, if they were.
FilterBuilt(built, ligne, dest) ==
    IF ~built.ok THEN built
    ELSE Return(_filter_passages(built.val, ligne, dest))

\* The raw departures of a line, all of them when no line is asked for.
RECURSIVE DeparturesOfLine(_, _)
DeparturesOfLine(l, ligne) ==
    IF l = <<>> THEN <<>>
    ELSE IF ligne = None \/ ligne.s = NoneStr
              \/ Lower(Head(l).line) = Lower(ligne.s)
         THEN <<Head(l)>> \o DeparturesOfLine(Tail(l), ligne)
         ELSE DeparturesOfLine(Tail(l), ligne)

\* prochains_passages building the passages of the asked line only.
PassagesOfDepartures_LineFirst(json_prochains_passages, ligne, dest, clock) ==
    IF Len(json_prochains_passages) < 1
    THEN Raise("UnboundLocalError", [name |-> "liste_prochains_passages"])
    ELSE FilterBuilt(BuildPassages(DeparturesOfLine(json_prochains_passages,
                                                    ligne), <<>>, clock),
                     ligne, dest)

\* prochains_passages from the fetched departures on: the list returned, or
\* the exception raised. With no departure, liste_prochains_passages is never
\* assigned and the return statement raises UnboundLocalError.
PassagesOfDepartures(json_prochains_passages, ligne, dest, clock) ==
    IF Len(json_prochains_passages) < 1
    THEN Raise("UnboundLocalError", [name |-> "liste_prochains_passages"])
    ELSE FilterBuilt(BuildPassages(json_prochains_passages, <<>>, clock),
                     ligne, dest)

\* ------------------------------------------------------------- the inputs

S_L6 == <<"L","6">>
S_l6 == <<"l","6">>
S_109 == <<"1","0","9">>
S_A == <<"A">>
S_A_B == <<"A"," ",":"," ","B">>
S_C == <<"C">>
S_B_C == <<"B"," ",":"," ","C">>
S_Ramonville == <<"R","a","m","o","n","v","i","l","l","e">>
S_RAMONVILLE == <<"R","A","M","O","N","V","I","L","L","E">>
S_Labege == <<"L","a","b","e","g","e">>
S_Saint_Cyprien == <<"S","a","i","n","t","-","C","y","p","r","i","e","n">>
S_saint_cyprien == <<"s","a","i","n","t"," ","c","y","p","r","i","e","n">>
S_SaintCyprien == <<"S","a","i","n","t"," ","C","y","p","r","i","e","n">>
S_saint_hyphen == <<"s","a","i","n","t","-","c","y","p","r","i","e","n">>
S_Capitole == <<"C","a","p","i","t","o","l","e">>
S_capitole == <<"c","a","p","i","t","o","l","e">>
S_CAPITOLE == <<"C","A","P","I","T","O","L","E">>
S_Arenes == <<"A","r","e","n","e","s">>
S_Balma == <<"B","a","l","m","a">>

\* Timestamps as the API gives them, and some it should not give.
T1 == <<"2","0","2","0","-","0","1","-","1","5"," ","1","0",":","5","2",":","0","0">>
T2 == <<"2","0","2","0","-","0","1","-","1","5"," ","1","0",":","5","5",":","0","0">>
T3 == <<"2","0","2","0","-","0","1","-","1","5"," ","1","1",":","1","5",":","0","0">>
T_iso == <<"2","0","2","0","-","0","1","-","1","5","T","1","0",":","5","2",":","0","0">>
T_month13 == <<"2","0","2","0","-","1","3","-","1","5"," ","1","0",":","5","2",":","0","0">>

\* A raw departure, reduced to the three fields prochains_passages reads.
Departure(d, l, dest) == [dateTime |-> d, line |-> l, destination |-> dest]

\* The readings of datetime.now() (naive, read as UTC).
Clocks ==
    {[naive |-> [year |-> 2020, month |-> 1, day |-> 15, hour |-> 9,
                 minute |-> 50, second |-> 0], microsecond |-> 0],
     [naive |-> [year |-> 2020, month |-> 1, day |-> 12, hour |-> 9,
                 minute |-> 55, second |-> 30], microsecond |-> 250000]}

\* The stop directories stop_areas.json may hold.
Directories ==
    {<<[name |-> S_Capitole, id |-> "SA_1"], [name |-> S_Arenes, id |-> "SA_2"],
       [name |-> S_CAPITOLE, id |-> "SA_3"]>>,
     <<[name |-> S_Arenes, id |-> "SA_2"], [name |-> S_CAPITOLE, id |-> "SA_3"]>>}

StopNames == {S_capitole, S_Arenes, S_Balma}
LineArgs == {None, Str(NoneStr), Str(S_l6), Str(S_109)}
DestinationArgs ==
    {None, Str(NoneStr), Str(S_SaintCyprien), Str(S_saint_hyphen),
     Str(S_RAMONVILLE)}

\* The departures of the modelled responses.
Departures ==
    {Departure(T1, S_L6, S_Ramonville), Departure(T3, S_L6, S_Ramonville),
     Departure(T2, S_109, S_Saint_Cyprien),
     Departure(T_iso, S_L6, S_Ramonville), Departure(T_month13, S_109, S_Labege)}

\* The responses requests.get may return.
Responses ==
    [status_code : {HTTP_OK, 201, 500},
     text : {[json |-> TRUE, departure |-> l] : l \in SeqUpTo(Departures, MaxDep)}
              \cup {[json |-> FALSE, raw |-> "Service Unavailable"]}]

\* The passages handed to a filter function called on its own.
Passages ==
    {Passage(d.dateTime, d.line, d.destination,
             CHOOSE c \in Clocks : c.microsecond = 0).val :
       d \in {Departure(T1, S_L6, S_Ramonville),
              Departure(T2, S_109, S_Labege),
              Departure(T3, S_L6, S_Ramonville),
              Departure(T1, S_l6, S_Saint_Cyprien),
              Departure(T2, S_L6, S_saint_cyprien),
              Departure(T1, S_A_B, S_C),
              Departure(T2, S_A, S_B_C)}}

\* The timedeltas handed to _timedelta_to_str called on its own.
Timedeltas ==
    [days : (0 - MaxDays)..MaxDays,
     seconds : {h * 3600 + m * 60 + s : h \in 0..23, m \in 0..59, s \in {0, 59}}]

\* -------------------------------------------------- prochains_passages runs

NoValue == [ok |-> FALSE]

\* The locals of prochains_passages before a call.
NoCall ==
    /\ stop_area_name = <<>>
    /\ stop_area_id = ""
    /\ http = <<>>
    /\ response = NoValue
    /\ printed = <<>>
    /\ result = NoValue
    /\ error = NoValue

Init ==
    /\ pc = "idle"
    /\ STOP_AREAS_DICT \in Directories
    /\ now \in Clocks
    /\ NoCall
    /\ destination = None
    /\ line = None
    /\ liste = <<>>
    /\ out = <<>>
    /\ td = [days |-> 0, seconds |-> 0]

\* prochains_passages(stop_area_name, destination, line) is called.
Call ==
    /\ pc = "idle"
    /\ \E name \in StopNames, dest \in DestinationArgs, l \in LineArgs :
         /\ stop_area_name' = name
         /\ destination' = dest
         /\ line' = l
    /\ pc' = "resolve"
    /\ UNCHANGED <<STOP_AREAS_DICT, now, stop_area_id, http, response, printed,
                   result, error, liste, out, td>>

\* Lines 116-122 with the comparison of line 117 replaced by < 0: with no
\* match, stop_areas[0] raises IndexError.
Resolve_OffByOne ==
    /\ pc = "resolve"
    /\ \E stop_areas \in {get_stop_area_by_name(stop_area_name)} :
         IF Len(stop_areas) < 1
         THEN /\ error' = Raise("IndexError", [index |-> 0])
              /\ pc' = "raised"
              /\ UNCHANGED <<printed, stop_area_id>>
         ELSE /\ printed' = IF Len(stop_areas) > 1
                            THEN Append(printed, "Plusieurs arrets trouves")
                            ELSE printed
              /\ stop_area_id' = stop_areas[1].id
              /\ pc' = "fetch"
              /\ error' = error
    /\ UNCHANGED <<STOP_AREAS_DICT, now, stop_area_name, destination, line,
                   http, response, result, liste, out, td>>

\* Lines 116-122 with stop_areas[-1] for stop_areas[0].
Resolve_LastMatch ==
    /\ pc = "resolve"
    /\ \E stop_areas \in {get_stop_area_by_name(stop_area_name)} :
         IF Len(stop_areas) < 1
         THEN /\ error' = Raise("KeyError", [stop_area_name |-> stop_area_name])
              /\ pc' = "raised"
              /\ UNCHANGED <<printed, stop_area_id>>
         ELSE /\ printed' = IF Len(stop_areas) > 1
                            THEN Append(printed, "Plusieurs arrets trouves")
                            ELSE printed
              /\ stop_area_id' = stop_areas[Len(stop_areas)].id
              /\ pc' = "fetch"
              /\ error' = error
    /\ UNCHANGED <<STOP_AREAS_DICT, now, stop_area_name, destination, line,
                   http, response, result, liste, out, td>>

\* Lines 116-122: the stop is resolved, or KeyError is raised.
Resolve ==
    /\ pc = "resolve"
    /\ \E stop_areas \in {get_stop_area_by_name(stop_area_name)} :
         IF Len(stop_areas) < 1
         THEN /\ error' = Raise("KeyError", [stop_area_name |-> stop_area_name])
              /\ pc' = "raised"
              /\ UNCHANGED <<printed, stop_area_id>>
         ELSE /\ printed' = IF Len(stop_areas) > 1
                            THEN Append(printed, "Plusieurs arrets trouves")
                            ELSE printed
              /\ stop_area_id' = stop_areas[1].id
              /\ pc' = "fetch"
              /\ error' = error
    /\ UNCHANGED <<STOP_AREAS_DICT, now, stop_area_name, destination, line,
                   http, response, result, liste, out, td>>

\* Lines 124-125: the request is sent and answered; the departures are
\* read, or the exception of get_prochains_passages_for_stop_area_id leaves
\* the call.
Fetch ==
    /\ pc = "fetch"
    /\ \E ret \in Responses :
         \E r \in {get_prochains_passages_for_stop_area_id(stop_area_id,
                                                           LIMIT, ret)} :
            /\ http' = Append(http, StopsSchedulesUrl(stop_area_id, LIMIT))
            /\ response' = ret
            /\ IF r.ok
               THEN pc' = "build" /\ error' = error
               ELSE pc' = "raised" /\ error' = r
    /\ UNCHANGED <<STOP_AREAS_DICT, now, stop_area_name, stop_area_id,
                   destination, line, printed, result, liste, out, td>>

\* Lines 127-144: the passages are built (each Passage reads the clock) and
\* filtered, and returned.
Build ==
    /\ pc = "build"
    /\ \E clock \in Clocks :
         \E r \in {PassagesOfDepartures(response.text.departure, line,
                                        destination, clock)} :
            /\ now' = clock
            /\ IF r.ok
               THEN pc' = "done" /\ result' = r /\ error' = error
               ELSE pc' = "raised" /\ error' = r /\ result' = result
    /\ UNCHANGED <<STOP_AREAS_DICT, stop_area_name, stop_area_id, destination,
                   line, http, response, printed, liste, out, td>>

\* The call has ended, and its locals with it; the next one may start.
Finish ==
    /\ pc \in {"done", "raised"}
    /\ pc' = "idle"
    /\ stop_area_name' = <<>>
    /\ stop_area_id' = ""
    /\ http' = <<>>
    /\ response' = NoValue
    /\ printed' = <<>>
    /\ result' = NoValue
    /\ error' = NoValue
    /\ destination' = None
    /\ line' = None
    /\ UNCHANGED <<STOP_AREAS_DICT, now, liste, out, td>>

Next == Call \/ Resolve \/ Fetch \/ Build \/ Finish

Spec == Init /\ [][Next]_vars

\* ------------------------------------- the filter functions on their own

InitFilter ==
    /\ pc = "filter"
    /\ STOP_AREAS_DICT = <<>>
    /\ now \in {c \in Clocks : c.microsecond = 0}
    /\ NoCall
    /\ liste \in SeqUpTo(Passages, MaxLen)
    /\ line \in LineArgs
    /\ destination \in DestinationArgs
    /\ out = <<>>
    /\ td = [days |-> 0, seconds |-> 0]

FilterOneLine ==
    /\ pc = "filter"
    /\ out' = _filter_passages_for_one_line(liste, line)
    /\ pc' = "line_done"
    /\ UNCHANGED <<STOP_AREAS_DICT, now, stop_area_name, stop_area_id,
                   destination, line, http, response, printed, result, error,
                   liste, td>>

FilterADestination ==
    /\ pc = "filter"
    /\ out' = _filter_passages_for_a_destination(liste, destination)
    /\ pc' = "destination_done"
    /\ UNCHANGED <<STOP_AREAS_DICT, now, stop_area_name, stop_area_id,
                   destination, line, http, response, printed, result, error,
                   liste, td>>

FilterPassages ==
    /\ pc = "filter"
    /\ out' = _filter_passages(liste, line, destination)
    /\ pc' = "filter_done"
    /\ UNCHANGED <<STOP_AREAS_DICT, now, stop_area_name, stop_area_id,
                   destination, line, http, response, printed, result, error,
                   liste, td>>

NextFilter == FilterOneLine \/ FilterADestination \/ FilterPassages

SpecFilter == InitFilter /\ [][NextFilter]_vars

\* --------------------------------------------- _timedelta_to_str on its own

InitFmt ==
    /\ pc = "fmt"
    /\ STOP_AREAS_DICT = <<>>
    /\ now \in {c \in Clocks : c.microsecond = 0}
    /\ NoCall
    /\ destination = None
    /\ line = None
    /\ liste = <<>>
    /\ out = <<>>
    /\ td \in Timedeltas

TimedeltaToStr ==
    /\ pc = "fmt"
    /\ out' = _timedelta_to_str(td)
    /\ pc' = "fmt_done"
    /\ UNCHANGED <<STOP_AREAS_DICT, now, stop_area_name, stop_area_id,
                   destination, line, http, response, printed, result, error,
                   liste, td>>

NextFmt == TimedeltaToStr

SpecFmt == InitFmt /\ [][NextFmt]_vars

\* ============================================================== properties

\* The elements of s at the indices I, in the order of s.
SubSeqAt(s, I) ==
    [k \in 1..Cardinality(I) |->
       s[CHOOSE i \in I : Cardinality({j \in I : j < i}) = k - 1]]

\* The directory entries whose name is the stop name, case aside.
MatchIndices ==
    {i \in DOMAIN STOP_AREAS_DICT :
       Lower(STOP_AREAS_DICT[i].name) = Lower(stop_area_name)}

Least(I) == CHOOSE i \in I : \A j \in I : i <= j

\* The call was left by an exception of this type.
Raised(type) == pc = "raised" /\ error.exc.type = type

\* The request was answered (the call is past line 125).
Answered == pc \in {"build", "done", "raised"} /\ Len(http) > 0

SamePair(p, q) == p.ligne = q.ligne /\ p.destination = q.destination

\* The passages that reach the deduplication step of _filter_passages.
Filtered ==
    _filter_passages_for_a_destination(
        _filter_passages_for_one_line(liste, line), destination)

\* The indices of s that hold the first occurrence of a (line, destination).
FirstOfPair(s) ==
    {i \in DOMAIN s : \A j \in 1..(i - 1) : ~SamePair(s[j], s[i])}

\* C1: _filter_passages returns, of the passages that reach its
\* deduplication step, exactly the first occurrence of each distinct
\* (line, destination) pair, in the order of the input.
C1_DedupKeepsFirstOfEachPair ==
    pc = "filter_done" => out = SubSeqAt(Filtered, FirstOfPair(Filtered))

\* C2: when the stop resolves and the fetch succeeds with zero departures,
\* prochains_passages returns the empty sequence and raises nothing, whatever
\* the destination and line arguments.
C2_EmptyFetchReturnsEmpty ==
    (/\ pc \in {"done", "raised"}
     /\ Len(http) > 0
     /\ response.status_code = 200
     /\ response.text.json
     /\ response.text.departure = <<>>)
    => pc = "done" /\ result.ok /\ result.val = <<>>

\* C3: when the stop name matches no entry of the directory, the call ends
\* with KeyError (the unknown stop) and never issues an HTTP request: it is
\* never past the resolution.
C3_UnknownStopBeforeFetch ==
    (pc # "idle" /\ MatchIndices = {})
    => /\ http = <<>>
       /\ pc \in {"resolve", "raised"}
       /\ pc = "raised" =>
            /\ error.exc.type = "KeyError"
            /\ error.exc.args.stop_area_name = stop_area_name
            /\ ~result.ok

C3_Witness ==
    /\ Raised("KeyError")
    /\ stop_area_name = S_Balma
    /\ STOP_AREAS_DICT # <<>>
    /\ http = <<>>

\* The human string the four rules give for a day count and the seconds of
\* the remainder of the day.
C4_Rules(days, seconds) ==
    LET hours   == seconds \div 3600
        minutes == (seconds - hours * 3600) \div 60
    IN CASE days > 0 -> IntToStr(days) \o <<" ","j","o","u","r","s">>
         [] days <= 0 /\ hours > 0 /\ minutes > 0 ->
              IntToStr(hours) \o <<" ","h","e","u","r","e","s"," ","e","t"," ">>
                \o IntToStr(minutes) \o <<" ","m","i","n","u","t","e","s">>
         [] days <= 0 /\ hours > 0 /\ minutes = 0 ->
              IntToStr(hours) \o <<" ","h","e","u","r","e","s">>
         [] days <= 0 /\ hours = 0 /\ minutes < 1 ->
              <<"m","o","i","n","s"," ","d","'","u","n","e"," ",
                "m","i","n","u","t","e">>
         [] days <= 0 /\ hours = 0 /\ minutes >= 1 ->
              IntToStr(minutes) \o <<" ","m","i","n","u","t","e","s">>

C4_2h15 == <<"2"," ","h","e","u","r","e","s"," ","e","t"," ",
             "1","5"," ","m","i","n","u","t","e","s">>

\* C4: _timedelta_to_str returns "{days} jours" when days > 0; else
\* "{hours} heures", followed by " et {minutes} minutes" when minutes > 0,
\* when hours > 0; else "moins d'une minute" when minutes < 1; else
\* "{minutes} minutes"; 2 h 15 min gives "2 heures et 15 minutes", 0 h 0 min
\* "moins d'une minute", 3 days "3 jours", and a day count <= 0 has no effect.
C4_TimedeltaToStr ==
    pc = "fmt_done" =>
      /\ out = C4_Rules(td.days, td.seconds)
      /\ td.days <= 0 => out = C4_Rules(0, td.seconds)
      /\ (td.days <= 0 /\ td.seconds \in 8100..8159) => out = C4_2h15
      /\ (td.days <= 0 /\ td.seconds \in 0..59) =>
            out = <<"m","o","i","n","s"," ","d","'","u","n","e"," ",
                    "m","i","n","u","t","e">>
      /\ td.days = 3 => out = <<"3"," ","j","o","u","r","s">>

C4_Witness ==
    /\ pc = "fmt_done"
    /\ td.days < 0
    /\ td.seconds = 8159
    /\ out = C4_2h15

\* The destination as the filter compares it.
C5_Normalized(s) == ReplaceHyphen(Lower(s))

\* C5: _filter_passages_for_a_destination keeps every passage when the
\* destination is absent or the string "None"; otherwise it keeps, in the
\* order of the input, exactly the passages whose destination equals the
\* argument once both are lower-cased and their hyphens replaced by blanks.
C5_DestinationFilter ==
    pc = "destination_done" =>
      IF destination = None \/ destination.s = NoneStr
      THEN out = liste
      ELSE out = SubSeqAt(liste,
                   {i \in DOMAIN liste :
                      C5_Normalized(liste[i].destination)
                        = C5_Normalized(destination.s)})

C5_Witness ==
    /\ pc = "destination_done"
    /\ destination = Str(S_SaintCyprien)
    /\ Len(liste) = 3
    /\ liste[1].destination = S_Ramonville
    /\ liste[2].destination = S_Saint_Cyprien
    /\ liste[3].destination = S_saint_cyprien
    /\ out = <<liste[2], liste[3]>>

\* C6: _filter_passages_for_one_line keeps every passage when the line is
\* absent or the string "None"; for any other line it keeps, in the order of
\* the input, exactly the passages whose line equals it, case aside.
C6_LineFilter ==
    pc = "line_done" =>
      IF line = None \/ line.s = NoneStr
      THEN out = liste
      ELSE out = SubSeqAt(liste,
                   {i \in DOMAIN liste : Lower(liste[i].ligne) = Lower(line.s)})

C6_Witness ==
    /\ pc = "line_done"
    /\ line = Str(NoneStr)
    /\ Len(liste) >= 2
    /\ \A i \in DOMAIN liste : liste[i].ligne # NoneStr
    /\ out = liste

\* C7: a call whose stop name matches an entry of the directory, case
\* aside, issues exactly one HTTP request: none before the fetch, one from
\* then on, whatever the outcome; it asks for 15 departures of the first
\* matching entry in the order of the directory.
C7_OneRequestForFirstMatch ==
    (pc # "idle" /\ MatchIndices # {})
    => /\ pc \in {"resolve", "fetch"} => http = <<>>
       /\ pc \in {"build", "done", "raised"} =>
            /\ Len(http) = 1
            /\ http[1].number = 15
            /\ http[1].stopAreaId = STOP_AREAS_DICT[Least(MatchIndices)].id

C7_Witness ==
    /\ pc = "raised"
    /\ stop_area_name = S_capitole
    /\ Cardinality(MatchIndices) = 2
    /\ STOP_AREAS_DICT[1].name = S_Capitole
    /\ Len(http) = 1
    /\ http[1].stopAreaId = "SA_1"
    /\ response.status_code = 500

\* C8 as stated: the fetch fails with ConnectionError exactly when the
\* status is not 200, the error carries the status code and the response
\* body, and it leaves prochains_passages with no list returned.
C8_ErrorCarriesStatusAndBody ==
    Answered =>
      /\ Raised("ConnectionError") <=> response.status_code # 200
      /\ response.status_code # 200 =>
           /\ pc = "raised"
           /\ ~result.ok
           /\ error.exc.args.status_code = response.status_code
           /\ "text" \in DOMAIN error.exc.args
           /\ error.exc.args.text = response.text

\* C8, amended: for every response received, the fetch fails with
\* ConnectionError exactly when the status is not 200; the error carries the
\* status code and the url of the request, and nothing of the response body;
\* it leaves prochains_passages with no list returned.
C8_ErrorCarriesStatusAndUrl ==
    Answered =>
      /\ Raised("ConnectionError") <=> response.status_code # 200
      /\ response.status_code # 200 =>
           /\ pc = "raised"
           /\ ~result.ok
           /\ DOMAIN error.exc.args = {"status_code", "url"}
           /\ error.exc.args.status_code = response.status_code
           /\ error.exc.args.url = http[1]

C8_Witness ==
    /\ Raised("ConnectionError")
    /\ response.status_code = 500
    /\ ~response.text.json
    /\ error.exc.args.status_code = 500
    /\ ~result.ok

\* The departures of the response whose dateTime strptime refuses.
C9_Malformed ==
    {i \in DOMAIN response.text.departure :
       ~Strptime(response.text.departure[i].dateTime,
                 _DEFAULT_DATE_FORMAT).ok}

\* C9: when a departure of a fetched response has a dateTime that does not
\* match the format, prochains_passages ends with TypeError naming the format
\* and the string (of the first such departure) and returns nothing, whatever
\* the line and destination: also when the filters would drop that departure.
C9_MalformedDateRaises ==
    (/\ pc \in {"done", "raised"}
     /\ Len(http) > 0
     /\ response.status_code = 200
     /\ response.text.json
     /\ C9_Malformed # {})
    => /\ Raised("TypeError")
       /\ ~result.ok
       /\ error.exc.args.date_format = _DEFAULT_DATE_FORMAT
       /\ error.exc.args.str_datetime
            = response.text.departure[Least(C9_Malformed)].dateTime

C9_Witness ==
    /\ Raised("TypeError")
    /\ line = Str(S_109)
    /\ Len(response.text.departure) = 2
    /\ response.text.departure[1] = Departure(T2, S_109, S_Saint_Cyprien)
    /\ response.text.departure[2] = Departure(T_iso, S_L6, S_Ramonville)
    /\ error.exc.args.str_datetime = T_iso

\* C10: two passages have the same ligne_destination exactly when they have
\* the same line and the same destination, so that the deduplication never
\* takes two different pairs for one.
C10_KeyInjective ==
    pc = "filter_done" =>
      \A i, j \in DOMAIN liste :
        liste[i].ligne_destination = liste[j].ligne_destination
          <=> SamePair(liste[i], liste[j])

====
